---- MODULE Spec2Model ----
(***************************************************************************)
(* Batch-job incremental upload of googleads-python-lib (AdWords):         *)
(* the upload request builder (BuildUploadRequest and its helpers) and the *)
(* IncrementalUploadHelper session (construction with URL initialisation,  *)
(* UploadOperations, Dump, Load), as exercised by tests/adwords_test.py.   *)
(* A request body is a sequence of bytes; each element of a body sequence  *)
(* stands for one byte.                                                    *)
(***************************************************************************)
EXTENDS Integers, Sequences, FiniteSets, TLC

VARIABLES
  live,                    \* an IncrementalUploadHelper object exists
  upload_url,              \* IncrementalUploadHelper._upload_url
  current_content_length,  \* IncrementalUploadHelper._current_content_length
  is_last,                 \* IncrementalUploadHelper._is_last
  version,                 \* IncrementalUploadHelper._request_builder._version
  base,                    \* current_content_length the helper was created with
  uploaded,                \* the requests the transport accepted, in order
  call,                    \* the last call made: operation, outcome, state before it
  opened,                  \* requests handed to the HTTP transport by the last call
  probes,                  \* initialisation probes of the last call: URL, response
  file,                    \* the text last written by Dump
  built,                   \* the last direct BuildUploadRequest call: arguments, result
  direct,                  \* the last direct call of another builder method
  temp_id,                 \* BatchJobHelper: the temporary ID last handed out
  ids,                     \* the values GetId returned, in order
  threads,                 \* each caller's UploadOperations call in progress
  puts,                    \* the PUT requests the transport accepted from callers
  serialised,              \* the callers make their calls one at a time
  statement_offset,        \* the example's statement.offset
  page_response,           \* the example's last response
  requested,               \* the offsets of the statements the example sent
  pc,                      \* where the example's main is
  printed                  \* what the example printed as the number of results

vars == <<live, upload_url, current_content_length, is_last, version, base,
          uploaded, call, opened, probes, file, built, direct, temp_id, ids,
          threads, puts, serialised,
          statement_offset, page_response, requested, pc, printed>>

callerVars == <<threads, puts, serialised>>

exampleVars == <<statement_offset, page_response, requested, pc, printed>>

directVars == <<direct, temp_id, ids>>

helperVars == <<live, upload_url, current_content_length, is_last, version>>

-----------------------------------------------------------------------------
(* Bounds of the model *)

BATCH_JOB_INCREMENT == 4
MaxOpsLen == 4
MaxContentLength == 12
MaxUploads == 3
MaxIds == 4
MaxOperations == 2
MaxResults == 2
SUGGESTED_PAGE_LIMIT == 2
MaxPages == 5
MaxTotal == 6

-----------------------------------------------------------------------------
(* Values *)

SeedURLs == {"https://goo.gl/w8tkpK"}
ResolvedURLs == {"https://goo.gl/Xtaq83", "https://goo.gl/IaQQsJ"}
Versions == {"v201609", "v201702"}
NoURL == ""
NoVersion == ""

\* A response of the probe request: its headers, with or without 'location'.
ProbeResponses ==
  {[headers |-> {}]} \cup {[headers |-> {<<"location", u>>}] : u \in ResolvedURLs}

\* The operations XML of one chunk: 0..MaxOpsLen bytes of operation markup.
OperationsXML == {[i \in 1..n |-> "o"] : n \in 0..MaxOpsLen}

UPLOAD_PREFIX == <<"<mutate>">>
UPLOAD_SUFFIX == <<"</mutate>">>
PAD == " "

-----------------------------------------------------------------------------
(* Decimal rendering and parsing of integers, as '%s' % n and int(text) do *)

DigitChars == <<"0", "1", "2", "3", "4", "5", "6", "7", "8", "9">>

RECURSIVE Digits(_)
Digits(n) ==
  IF n < 10 THEN <<DigitChars[n + 1]>>
  ELSE Digits(n \div 10) \o <<DigitChars[(n % 10) + 1]>>

DigitValue(c) == CHOOSE d \in 0..9 : DigitChars[d + 1] = c

RECURSIVE ParseInt(_)
ParseInt(s) ==
  IF Len(s) = 1 THEN DigitValue(s[1])
  ELSE 10 * ParseInt(SubSeq(s, 1, Len(s) - 1)) + DigitValue(s[Len(s)])

-----------------------------------------------------------------------------
(* Upload request builder *)

\* Mutant: a length that is a multiple of the increment gets a whole
\* increment of padding.
GetPaddingLengthFullWhenAligned(length) ==
  BATCH_JOB_INCREMENT - (length % BATCH_JOB_INCREMENT)

\* Mutant: the remainder itself is returned.
GetPaddingLengthRemainder(length) == length % BATCH_JOB_INCREMENT

\* _GetPaddingLength: bytes of padding that bring length up to a multiple of
\* the increment; none when length already is one.
GetPaddingLength(length) ==
  IF length % BATCH_JOB_INCREMENT = 0 THEN 0
  ELSE BATCH_JOB_INCREMENT - (length % BATCH_JOB_INCREMENT)

\* Mutant: every body opens with the prefix.
BuildUploadRequestBodyAlwaysPrefix(xml, has_prefix, has_suffix) ==
  UPLOAD_PREFIX \o xml \o (IF has_suffix THEN UPLOAD_SUFFIX ELSE <<>>)

\* Mutant: each flag frames the other end of the body.
BuildUploadRequestBodyFlagsSwapped(xml, has_prefix, has_suffix) ==
  (IF has_suffix THEN UPLOAD_PREFIX ELSE <<>>) \o xml
    \o (IF has_prefix THEN UPLOAD_SUFFIX ELSE <<>>)

\* _BuildUploadRequestBody(operations, has_prefix=True, has_suffix=True)
BuildUploadRequestBody(xml, has_prefix, has_suffix) ==
  (IF has_prefix THEN UPLOAD_PREFIX ELSE <<>>) \o xml
    \o (IF has_suffix THEN UPLOAD_SUFFIX ELSE <<>>)

\* str.ljust(width): the body followed by padding up to width bytes.
LJust(body, width) ==
  IF width <= Len(body) THEN body
  ELSE body \o [i \in 1..(width - Len(body)) |-> PAD]

\* Mutant: every range is said to start at byte 0.
ContentRangeFromZero(start, end, total) ==
  <<"bytes", " ">> \o Digits(0) \o <<"-">> \o Digits(end) \o <<"/">> \o total

\* 'bytes %s-%s/%s' % (start, end, total), total already rendered.
ContentRange(start, end, total) ==
  <<"bytes", " ">> \o Digits(start) \o <<"-">> \o Digits(end) \o <<"/">> \o total

\* Mutant: the increment for a chunk that is not final, '*' for the final one.
RangeTotalIncrement(last, new_content_length) ==
  IF last THEN <<"*">> ELSE Digits(BATCH_JOB_INCREMENT)

\* The total field: the cumulative length for the final chunk, '*' otherwise.
RangeTotal(last, new_content_length) ==
  IF last THEN Digits(new_content_length) ELSE <<"*">>

\* Mutant: Content-length and the range are computed from the unpadded body.
BuildUploadRequestUnpaddedLength(url, xml, last, ccl) ==
  LET body == BuildUploadRequestBody(xml, ccl = 0, last)
      content_length == Len(body)
      padded_content_length == Len(body) + GetPaddingLength(Len(body))
      new_content_length == ccl + content_length
  IN [method |-> "PUT",
      url |-> url,
      headers |-> [ContentType |-> "application/xml",
                   ContentLength |-> content_length,
                   ContentRange |-> ContentRange(ccl, new_content_length - 1,
                                        RangeTotal(last, new_content_length))],
      data |-> LJust(body, padded_content_length)]

\* Mutant: the final chunk is sent without padding.
BuildUploadRequestNoFinalPadding(url, xml, last, ccl) ==
  LET body == BuildUploadRequestBody(xml, ccl = 0, last)
      padded_content_length ==
        IF last THEN Len(body) ELSE Len(body) + GetPaddingLength(Len(body))
      new_content_length == ccl + padded_content_length
  IN [method |-> "PUT",
      url |-> url,
      headers |-> [ContentType |-> "application/xml",
                   ContentLength |-> padded_content_length,
                   ContentRange |-> ContentRange(ccl, new_content_length - 1,
                                        RangeTotal(last, new_content_length))],
      data |-> LJust(body, padded_content_length)]

\* Mutant: the very first chunk is sent without padding.
BuildUploadRequestFirstUnpadded(url, xml, last, ccl) ==
  LET body == BuildUploadRequestBody(xml, ccl = 0, last)
      padded_content_length ==
        IF ccl = 0 THEN Len(body) ELSE Len(body) + GetPaddingLength(Len(body))
      new_content_length == ccl + padded_content_length
  IN [method |-> "PUT",
      url |-> url,
      headers |-> [ContentType |-> "application/xml",
                   ContentLength |-> padded_content_length,
                   ContentRange |-> ContentRange(ccl, new_content_length - 1,
                                        RangeTotal(last, new_content_length))],
      data |-> LJust(body, padded_content_length)]

\* BuildUploadRequest(upload_url, operations, is_last, current_content_length)
BuildUploadRequest(url, xml, last, ccl) ==
  LET body == BuildUploadRequestBody(xml, ccl = 0, last)
      padded_content_length == Len(body) + GetPaddingLength(Len(body))
      new_content_length == ccl + padded_content_length
  IN [method |-> "PUT",
      url |-> url,
      headers |-> [ContentType |-> "application/xml",
                   ContentLength |-> padded_content_length,
                   ContentRange |-> ContentRange(ccl, new_content_length - 1,
                                        RangeTotal(last, new_content_length))],
      data |-> LJust(body, padded_content_length)]

-----------------------------------------------------------------------------
(* Serialized session: yaml.dump of the four-key mapping, yaml.safe_load *)

\* Scalars PyYAML writes in quotes inside a flow mapping: those holding ':'.
QuotedScalars == SeedURLs \cup ResolvedURLs

YamlStr(s) == IF s \in QuotedScalars THEN <<"'", s, "'">> ELSE <<s>>

YamlBool(b) == IF b THEN <<"true">> ELSE <<"false">>

\* Mutant: the line is written without its terminating newline.
YamlDumpNoNewline(data) ==
  <<"{", "current_content_length", ": ">> \o Digits(data.current_content_length)
    \o <<", ", "is_last", ": ">> \o YamlBool(data.is_last)
    \o <<", ", "upload_url", ": ">> \o YamlStr(data.upload_url)
    \o <<", ", "version", ": ">> \o YamlStr(data.version)
    \o <<"}">>

\* yaml.dump(data, output): one flow mapping, keys sorted, newline at the end.
YamlDump(data) ==
  <<"{", "current_content_length", ": ">> \o Digits(data.current_content_length)
    \o <<", ", "is_last", ": ">> \o YamlBool(data.is_last)
    \o <<", ", "upload_url", ": ">> \o YamlStr(data.upload_url)
    \o <<", ", "version", ": ">> \o YamlStr(data.version)
    \o <<"}", "\n">>

\* The tokens of the value written after key, up to the next separator.
ValueTokens(text, key) ==
  LET k == CHOOSE i \in 1..Len(text) : text[i] = key /\ text[i + 1] = ": "
      e == CHOOSE j \in (k + 2)..Len(text) :
             /\ text[j] \in {", ", "}"}
             /\ \A m \in (k + 2)..(j - 1) : text[m] \notin {", ", "}"}
  IN SubSeq(text, k + 2, e - 1)

YamlLoadStr(tokens) == IF tokens[1] = "'" THEN tokens[2] ELSE tokens[1]

YamlLoadBool(tokens) == tokens[1] = "true"

\* Mutant: is_last is not read back and the helper starts unfinished.
YamlLoadDropsIsLast(text) ==
  [current_content_length |-> ParseInt(ValueTokens(text, "current_content_length")),
   is_last |-> FALSE,
   upload_url |-> YamlLoadStr(ValueTokens(text, "upload_url")),
   version |-> YamlLoadStr(ValueTokens(text, "version"))]

\* yaml.safe_load(file_input)
YamlLoad(text) ==
  [current_content_length |-> ParseInt(ValueTokens(text, "current_content_length")),
   is_last |-> YamlLoadBool(ValueTokens(text, "is_last")),
   upload_url |-> YamlLoadStr(ValueTokens(text, "upload_url")),
   version |-> YamlLoadStr(ValueTokens(text, "version"))]

-----------------------------------------------------------------------------
(* IncrementalUploadHelper *)

HasLocation(resp) == \E h \in resp.headers : h[1] = "location"

Location(resp) == (CHOOSE h \in resp.headers : h[1] = "location")[2]

\* Mutant: every construction probes the URL, whatever was uploaded already.
AlwaysInitialize(ccl) == TRUE

\* Whether constructing a helper with this current_content_length probes the
\* URL: only a session that has uploaded nothing is initialised.
NeedsInitialization(ccl) == ccl = 0

\* Mutant: the redirect is not followed and the helper keeps the URL given.
InitializeURLKeepsSeed(url, ccl, resp) == url

\* _InitializeURL(upload_url, current_content_length) with the probe's response:
\* the URL the helper is bound to.
InitializeURL(url, ccl, resp) ==
  IF NeedsInitialization(ccl) THEN Location(resp) ELSE url

Snapshot(op, outcome) ==
  [op |-> op, outcome |-> outcome, pre_live |-> live, pre_url |-> upload_url,
   pre_ccl |-> current_content_length, pre_is_last |-> is_last,
   pre_version |-> version]

NoHelper ==
  /\ live' = FALSE
  /\ upload_url' = NoURL
  /\ current_content_length' = 0
  /\ is_last' = FALSE
  /\ version' = NoVersion
  /\ base' = 0
  /\ uploaded' = <<>>

\* IncrementalUploadHelper(request_builder, upload_url, current_content_length,
\* is_last): the constructor, reached from GetIncrementalUploadHelper and Load.
NewHelper(op, v, url, ccl, last, resp) ==
  /\ opened' = <<>>
  /\ probes' = IF NeedsInitialization(ccl)
                 THEN <<[url |-> url, response |-> resp]>> ELSE <<>>
  /\ IF NeedsInitialization(ccl) /\ ~HasLocation(resp)
       THEN /\ NoHelper
            /\ call' = Snapshot(op, "UploadInitializationError")
       ELSE /\ live' = TRUE
            /\ upload_url' = InitializeURL(url, ccl, resp)
            /\ current_content_length' = ccl
            /\ is_last' = last
            /\ version' = v
            /\ base' = ccl
            /\ uploaded' = <<>>
            /\ call' = Snapshot(op, "ok")

\* BatchJobHelper.GetIncrementalUploadHelper(upload_url)
GetIncrementalUploadHelper(v, seed, resp) ==
  /\ ~live
  /\ NewHelper("GetIncrementalUploadHelper", v, seed, 0, FALSE, resp)
  /\ UNCHANGED <<file, built, directVars, callerVars, exampleVars>>

\* Mutant: the length is assigned, not added.
AdvanceAssigned(req, last) ==
  /\ current_content_length' = Len(req.data)
  /\ is_last' = last

\* The effect of an accepted chunk on the session.
Advance(req, last) ==
  /\ current_content_length' = current_content_length + Len(req.data)
  /\ is_last' = last

\* Mutant: the finished flag is not checked and the chunk is sent.
UploadOperationsAfterFinished(xml, last) ==
  /\ live
  /\ is_last
  /\ LET req == BuildUploadRequest(upload_url, xml, last, current_content_length)
     IN /\ current_content_length + Len(req.data) <= MaxContentLength
        /\ Len(uploaded) < MaxUploads
        /\ opened' = <<req>>
        /\ current_content_length' = current_content_length + Len(req.data)
        /\ is_last' = last
        /\ uploaded' = Append(uploaded, req)
  /\ call' = Snapshot("UploadOperations", "ok")
  /\ probes' = <<>>
  /\ UNCHANGED <<live, upload_url, version, base, file, built, directVars, callerVars, exampleVars>>

\* UploadOperations on a finished upload: refused before any request is built.
UploadOperationsRejected(xml, last) ==
  /\ live
  /\ is_last
  /\ call' = Snapshot("UploadOperations", "InvalidOperationError")
  /\ opened' = <<>>
  /\ probes' = <<>>
  /\ UNCHANGED <<helperVars, base, uploaded, file, built, directVars, callerVars, exampleVars>>

\* Mutant: the request is handed to the transport twice.
UploadOperationsSentTwice(xml, last) ==
  /\ live
  /\ ~is_last
  /\ LET req == BuildUploadRequest(upload_url, xml, last, current_content_length)
     IN /\ current_content_length + Len(req.data) <= MaxContentLength
        /\ Len(uploaded) < MaxUploads
        /\ opened' = <<req, req>>
        /\ Advance(req, last)
        /\ uploaded' = Append(uploaded, req)
  /\ call' = Snapshot("UploadOperations", "ok")
  /\ probes' = <<>>
  /\ UNCHANGED <<live, upload_url, version, base, file, built, directVars, callerVars, exampleVars>>

\* UploadOperations, the transport accepting the request.
UploadOperationsOk(xml, last) ==
  /\ live
  /\ ~is_last
  /\ LET req == BuildUploadRequest(upload_url, xml, last, current_content_length)
     IN /\ current_content_length + Len(req.data) <= MaxContentLength
        /\ Len(uploaded) < MaxUploads
        /\ opened' = <<req>>
        /\ Advance(req, last)
        /\ uploaded' = Append(uploaded, req)
  /\ call' = Snapshot("UploadOperations", "ok")
  /\ probes' = <<>>
  /\ UNCHANGED <<live, upload_url, version, base, file, built, directVars, callerVars, exampleVars>>

\* Mutant: the session is advanced before the transport is known to have
\* accepted the request.
UploadOperationsAdvanceThenRaise(xml, last) ==
  /\ live
  /\ ~is_last
  /\ LET req == BuildUploadRequest(upload_url, xml, last, current_content_length)
     IN /\ current_content_length + Len(req.data) <= MaxContentLength
        /\ opened' = <<req>>
        /\ current_content_length' = current_content_length + Len(req.data)
        /\ is_last' = last
  /\ call' = Snapshot("UploadOperations", "TransportError")
  /\ probes' = <<>>
  /\ UNCHANGED <<live, upload_url, version, base, uploaded, file, built, directVars, callerVars, exampleVars>>

\* UploadOperations, the transport raising.
UploadOperationsTransportError(xml, last) ==
  /\ live
  /\ ~is_last
  /\ LET req == BuildUploadRequest(upload_url, xml, last, current_content_length)
     IN /\ current_content_length + Len(req.data) <= MaxContentLength
        /\ opened' = <<req>>
  /\ call' = Snapshot("UploadOperations", "TransportError")
  /\ probes' = <<>>
  /\ UNCHANGED <<helperVars, base, uploaded, file, built, directVars, callerVars, exampleVars>>

\* IncrementalUploadHelper.UploadOperations(operations, is_last)
UploadOperations(xml, last) ==
  \/ UploadOperationsRejected(xml, last)
  \/ UploadOperationsOk(xml, last)
  \/ UploadOperationsTransportError(xml, last)

\* IncrementalUploadHelper.Dump(output)
Dump ==
  /\ live
  /\ file' = YamlDump([current_content_length |-> current_content_length,
                       is_last |-> is_last,
                       upload_url |-> upload_url,
                       version |-> version])
  /\ call' = Snapshot("Dump", "ok")
  /\ opened' = <<>>
  /\ probes' = <<>>
  /\ UNCHANGED <<helperVars, base, uploaded, built, directVars, callerVars, exampleVars>>

\* Mutant: the helper restored is never a finished one.
LoadForgetsIsLast(resp) ==
  /\ file # <<>>
  /\ LET data == YamlLoad(file)
     IN NewHelper("Load", data.version, data.upload_url,
                  data.current_content_length, FALSE, resp)
  /\ UNCHANGED <<file, built, directVars, callerVars, exampleVars>>

\* IncrementalUploadHelper.Load(file_input, client)
Load(resp) ==
  /\ file # <<>>
  /\ LET data == YamlLoad(file)
     IN NewHelper("Load", data.version, data.upload_url,
                  data.current_content_length, data.is_last, resp)
  /\ UNCHANGED <<file, built, directVars, callerVars, exampleVars>>

\* A direct call of the request builder, as the builder's tests make it.
Build(url, xml, last, ccl) ==
  /\ built' = <<[url |-> url, xml |-> xml, is_last |-> last,
                 current_content_length |-> ccl,
                 request |-> BuildUploadRequest(url, xml, last, ccl)]>>
  /\ UNCHANGED <<helperVars, base, uploaded, call, opened, probes, file,
                 directVars, callerVars, exampleVars>>

sessionVars ==
  <<helperVars, base, uploaded, call, opened, probes, file, built>>

\* How a call site gives a keyword argument: not at all, or a value.
KeywordArgs == {"omitted", "True", "False"}

\* The value a keyword argument has in the callee.
ArgValue(arg, default) == IF arg = "omitted" THEN default ELSE arg = "True"

\* request_builder._BuildUploadRequestBody(operations, has_prefix=..., has_suffix=...)
BuildUploadRequestBodyCall(xml, has_prefix, has_suffix) ==
  /\ direct' = [fn |-> "BuildUploadRequestBody", xml |-> xml,
                has_prefix |-> has_prefix, has_suffix |-> has_suffix,
                body |-> BuildUploadRequestBody(xml,
                                                ArgValue(has_prefix, TRUE),
                                                ArgValue(has_suffix, TRUE))]
  /\ UNCHANGED <<sessionVars, temp_id, ids, callerVars, exampleVars>>

-----------------------------------------------------------------------------
(* Specifications *)

\* No direct call made yet.
NoDirect == [fn |-> "none"]

NoCall ==
  [op |-> "none", outcome |-> "none", pre_live |-> FALSE, pre_url |-> NoURL,
   pre_ccl |-> 0, pre_is_last |-> FALSE, pre_version |-> NoVersion]

\* Nobody is in a call of UploadOperations.
Idle == [pc |-> "idle", outcome |-> "none", from |-> 0, last |-> FALSE, req |-> <<>>]

Callers == {1, 2}

\* The example has received no response yet.
NoResponse == [has_results |-> FALSE, totalResultSetSize |-> 0]

\* The example has printed nothing yet.
NoTotal == -1

InitSession ==
  /\ live = FALSE
  /\ upload_url = NoURL
  /\ current_content_length = 0
  /\ is_last = FALSE
  /\ version = NoVersion
  /\ base = 0
  /\ uploaded = <<>>
  /\ call = NoCall
  /\ opened = <<>>
  /\ probes = <<>>
  /\ file = <<>>
  /\ built = <<>>
  /\ direct = NoDirect
  /\ temp_id = 0
  /\ ids = <<>>
  /\ threads = [t \in Callers |-> Idle]
  /\ puts = <<>>
  /\ statement_offset = 0
  /\ page_response = NoResponse
  /\ requested = <<>>
  /\ pc = "loop"
  /\ printed = NoTotal

Init == InitSession /\ serialised = TRUE

Next ==
  \/ \E v \in Versions, seed \in SeedURLs, resp \in ProbeResponses :
       GetIncrementalUploadHelper(v, seed, resp)
  \/ \E xml \in OperationsXML, last \in BOOLEAN : UploadOperations(xml, last)
  \/ Dump
  \/ \E resp \in ProbeResponses : Load(resp)

Spec == Init /\ [][Next]_vars

\* The request builder on its own, over every argument within the bounds.
NextBuilder ==
  \/ \E url \in ResolvedURLs, xml \in OperationsXML, last \in BOOLEAN,
        ccl \in 0..MaxContentLength : Build(url, xml, last, ccl)
  \/ \E xml \in OperationsXML, has_prefix \in KeywordArgs,
        has_suffix \in KeywordArgs :
       BuildUploadRequestBodyCall(xml, has_prefix, has_suffix)

SpecBuilder == Init /\ [][NextBuilder]_vars

-----------------------------------------------------------------------------
(* Operations, as the caller gives them *)

ENVELOPE_NS == "http://schemas.xmlsoap.org/soap/envelope/"
ADWORDS_NS == "https://adwords.google.com/api/adwords/cm/v201609"
XSI_TYPE == "{http://www.w3.org/2001/XMLSchema-instance}type"
NS_ALIAS == "ns1"

\* The value of the key 'xsi_type' in a mapping that does not have the key.
NoXsiType == "<absent>"

\* The operation types the request builder knows a service for.
KnownOperationTypes ==
  {"BudgetOperation", "CampaignCriterionOperation", "CampaignLabelOperation"}

NoNode == [xsi_type |-> NoXsiType, type_field |-> "", fields |-> <<>>]

Leaf(name, text) == [name |-> name, kind |-> "leaf", text |-> text, node |-> NoNode]

Nested(name, node) == [name |-> name, kind |-> "node", text |-> "", node |-> node]

IdText == <<"1", "2", "3">>

\* GenerateOperations('BudgetOperation', n)[i], with any operator
BudgetOperation(i, operator) ==
  [operator |-> operator, xsi_type |-> "BudgetOperation",
   operand |-> [xsi_type |-> NoXsiType, type_field |-> "",
                fields |-> <<Leaf("budgetId", IdText[i]),
                             Leaf("name", "Batch budget #"),
                             Nested("amount",
                               [xsi_type |-> NoXsiType, type_field |-> "",
                                fields |-> <<Leaf("microAmount", "3333333")>>]),
                             Leaf("deliveryMethod", "STANDARD")>>]]

\* GenerateOperations('CampaignCriterionOperation', n)[i]
CampaignCriterionOperation(i) ==
  [operator |-> "ADD", xsi_type |-> "CampaignCriterionOperation",
   operand |-> [xsi_type |-> "NegativeCampaignCriterion",
                type_field |-> "CampaignCriterion.Type",
                fields |-> <<Leaf("campaignId", IdText[i]),
                             Nested("criterion",
                               [xsi_type |-> "Keyword",
                                type_field |-> "Criterion.Type",
                                fields |-> <<Leaf("text", "venus"),
                                             Leaf("matchType", "BROAD")>>])>>]]

\* GenerateOperations('CampaignLabelOperation', n)[i]
CampaignLabelOperation(i) ==
  [operator |-> "ADD", xsi_type |-> "CampaignLabelOperation",
   operand |-> [xsi_type |-> NoXsiType, type_field |-> "",
                fields |-> <<Leaf("campaignId", IdText[i]),
                             Leaf("labelId", IdText[i])>>]]

BogusOperation ==
  [operator |-> "ADD", xsi_type |-> "BogusOperation",
   operand |-> [xsi_type |-> NoXsiType, type_field |-> "",
                fields |-> <<Leaf("bogusProperty", "bogusValue")>>]]

\* An operation whose 'xsi_type' key was deleted.
UntypedOperation ==
  [CampaignCriterionOperation(1) EXCEPT !.xsi_type = NoXsiType]

OperationPool ==
  {BudgetOperation(1, "ADD"), BudgetOperation(2, "REMOVE"),
   CampaignCriterionOperation(1), CampaignCriterionOperation(2),
   CampaignLabelOperation(1), BogusOperation, UntypedOperation}

\* Lists of operations a caller passes: the operations of a known type in one
\* list are of one type.
OperationLists ==
  {ops \in UNION {[1..n -> OperationPool] : n \in 0..MaxOperations} :
     \A i, j \in 1..Len(ops) :
       (ops[i].xsi_type \in KnownOperationTypes
          /\ ops[j].xsi_type \in KnownOperationTypes)
         => ops[i].xsi_type = ops[j].xsi_type}

-----------------------------------------------------------------------------
(* XML: elements, their text form (a sequence of tags and text), parsing *)

El(ns, tag, attrib, text, children) ==
  [ns |-> ns, tag |-> tag, attrib |-> attrib, text |-> text, children |-> children]

NoElement == El("", "", <<>>, "", <<>>)

\* The xsi:type attribute of an element typed t, as the SOAP layer writes it.
TypeAttrib(t) ==
  IF t = NoXsiType THEN <<>>
  ELSE <<[name |-> XSI_TYPE, alias |-> NS_ALIAS, value |-> t]>>

RECURSIVE NodeElement(_, _)
\* The element of a mapping: its type as a '<X>.Type' child, then its fields.
NodeElement(tag, node) ==
  El(ADWORDS_NS, tag, TypeAttrib(node.xsi_type), "",
     (IF node.xsi_type = NoXsiType THEN <<>>
      ELSE <<El(ADWORDS_NS, node.type_field, <<>>, node.xsi_type, <<>>)>>)
       \o [i \in 1..Len(node.fields) |->
             IF node.fields[i].kind = "leaf"
               THEN El(ADWORDS_NS, node.fields[i].name, <<>>, node.fields[i].text, <<>>)
               ELSE NodeElement(node.fields[i].name, node.fields[i].node)])

\* The 'operations' element of one operation: operator, Operation.Type, operand.
OperationElement(op) ==
  El(ADWORDS_NS, "operations", TypeAttrib(op.xsi_type), "",
     <<El(ADWORDS_NS, "operator", <<>>, op.operator, <<>>),
       El(ADWORDS_NS, "Operation.Type", <<>>, op.xsi_type, <<>>),
       NodeElement("operand", op.operand)>>)

OpenTag(el) ==
  [k |-> "open", ns |-> el.ns, tag |-> el.tag, attrib |-> el.attrib, text |-> ""]

CloseTag(el) ==
  [k |-> "close", ns |-> el.ns, tag |-> el.tag, attrib |-> <<>>, text |-> ""]

TextToken(text) ==
  [k |-> "text", ns |-> "", tag |-> "", attrib |-> <<>>, text |-> text]

RECURSIVE tostring(_)
RECURSIVE tostring_all(_)
\* ElementTree.tostring(element) / the SOAP layer's rendering of a document
tostring(el) ==
  <<OpenTag(el)>> \o (IF el.text = "" THEN <<>> ELSE <<TextToken(el.text)>>)
    \o tostring_all(el.children) \o <<CloseTag(el)>>

\* ''.join(ElementTree.tostring(e) for e in elements)
tostring_all(els) ==
  IF els = <<>> THEN <<>> ELSE tostring(Head(els)) \o tostring_all(Tail(els))

ParseFailed == [ok |-> FALSE, root |-> NoElement]

ElementFailed == [ok |-> FALSE, el |-> NoElement, next |-> 0]

RECURSIVE ParseElement(_, _)
RECURSIVE ParseChildren(_, _)
\* The element that starts at token i, and the place after its closing tag:
\* an opening tag, text if any, child elements, the element's own closing tag.
ParseElement(text, i) ==
  IF i > Len(text) \/ text[i].k # "open" THEN ElementFailed
  ELSE
    LET has_text == i + 1 <= Len(text) /\ text[i + 1].k = "text"
        kids == ParseChildren(text, IF has_text THEN i + 2 ELSE i + 1)
    IN IF ~kids.ok \/ kids.next > Len(text) THEN ElementFailed
       ELSE IF \/ text[kids.next].k # "close"
               \/ text[kids.next].ns # text[i].ns
               \/ text[kids.next].tag # text[i].tag
         THEN ElementFailed
       ELSE [ok |-> TRUE,
             el |-> El(text[i].ns, text[i].tag, text[i].attrib,
                       IF has_text THEN text[i + 1].text ELSE "", kids.els),
             next |-> kids.next + 1]

\* The elements that start at token j, one after another, and the place after
\* the last of them.
ParseChildren(text, j) ==
  IF j > Len(text) \/ text[j].k # "open"
    THEN [ok |-> TRUE, els |-> <<>>, next |-> j]
  ELSE
    LET first == ParseElement(text, j)
    IN IF ~first.ok THEN [ok |-> FALSE, els |-> <<>>, next |-> 0]
       ELSE LET rest == ParseChildren(text, first.next)
            IN [ok |-> rest.ok, els |-> <<first.el>> \o rest.els,
                next |-> rest.next]

\* ElementTree.fromstring(text): the text is one element and nothing else.
fromstring(text) ==
  LET parsed == ParseElement(text, 1)
  IN IF parsed.ok /\ parsed.next = Len(text) + 1
       THEN [ok |-> TRUE, root |-> parsed.el]
       ELSE ParseFailed

\* element.find('{ns}tag'): the first child of that name, as a 0- or 1-sequence
Find(el, ns, tag) ==
  LET hits == {i \in 1..Len(el.children) :
                 el.children[i].ns = ns /\ el.children[i].tag = tag}
  IN IF hits = {} THEN <<>>
     ELSE <<el.children[CHOOSE i \in hits : \A j \in hits : i <= j]>>

-----------------------------------------------------------------------------
(* Raw request assembler and operation XML generator *)

Envelope(method, operations) ==
  El(ENVELOPE_NS, "Envelope", <<>>, "",
     <<El(ENVELOPE_NS, "Header", <<>>, "", <<>>),
       El(ENVELOPE_NS, "Body", <<>>, "",
          <<El(ADWORDS_NS, method, <<>>, "", operations)>>)>>)

\* Mutant: every request goes to mutate.
MethodOfAlwaysMutate(ops) == "mutate"

\* The SOAP method a list of operations is sent to.
MethodOf(ops) ==
  IF ops[1].xsi_type = "CampaignLabelOperation" THEN "mutateLabel" ELSE "mutate"

Raised(error) == [outcome |-> error, xml |-> <<>>]

\* Mutant: an operation of unknown type is rendered and sent to mutate.
GenerateRawRequestXMLAnyType(ops) ==
  [outcome |-> "ok",
   xml |-> tostring(Envelope(MethodOf(ops),
                             [i \in 1..Len(ops) |-> OperationElement(ops[i])]))]

\* Mutant: the operations are rendered last first.
GenerateRawRequestXMLReversed(ops) ==
  IF \E i \in 1..Len(ops) : ops[i].xsi_type \notin KnownOperationTypes
    THEN Raised("KeyError")
    ELSE [outcome |-> "ok",
          xml |-> tostring(Envelope(MethodOf(ops),
                    [i \in 1..Len(ops) |->
                       OperationElement(ops[Len(ops) + 1 - i])]))]

\* _GenerateRawRequestXML(operations), operations not empty
GenerateRawRequestXML(ops) ==
  IF \E i \in 1..Len(ops) : ops[i].xsi_type \notin KnownOperationTypes
    THEN Raised("KeyError")
    ELSE [outcome |-> "ok",
          xml |-> tostring(Envelope(MethodOf(ops),
                    [i \in 1..Len(ops) |-> OperationElement(ops[i])]))]

Failed(error) == [outcome |-> error, element |-> NoElement]

MethodTags == {"mutate", "mutateLabel"}

\* Mutant: a document without the method element yields an empty element.
GetRawOperationsFromXMLLenient(request) ==
  LET parsed == fromstring(request)
  IN IF ~parsed.ok THEN Failed("ParseError")
     ELSE LET body == Find(parsed.root, ENVELOPE_NS, "Body")
          IN IF body = <<>> \/ body[1].children = <<>>
                  \/ body[1].children[1].tag \notin MethodTags
               THEN [outcome |-> "ok", element |-> NoElement]
               ELSE [outcome |-> "ok", element |-> body[1].children[1]]

\* _GetRawOperationsFromXML(raw_request_xml)
GetRawOperationsFromXML(request) ==
  LET parsed == fromstring(request)
  IN IF ~parsed.ok THEN Failed("ParseError")
     ELSE LET body == Find(parsed.root, ENVELOPE_NS, "Body")
          IN IF body = <<>> \/ body[1].children = <<>>
                  \/ body[1].children[1].tag \notin MethodTags
               THEN Failed("AttributeError")
               ELSE [outcome |-> "ok", element |-> body[1].children[1]]

\* Mutant: only the element itself is rewritten, not the elements under it.
FormatForBatchJobServiceTopOnly(el) ==
  [el EXCEPT
     !.ns = IF @ = ADWORDS_NS THEN "" ELSE @,
     !.attrib = [i \in 1..Len(@) |-> [@[i] EXCEPT !.alias = ""]]]

RECURSIVE FormatForBatchJobService(_)
\* _FormatForBatchJobService(element): no AdWords namespace on any tag, no
\* namespace alias in any xsi:type.
FormatForBatchJobService(el) ==
  [el EXCEPT
     !.ns = IF @ = ADWORDS_NS THEN "" ELSE @,
     !.attrib = [i \in 1..Len(@) |-> [@[i] EXCEPT !.alias = ""]],
     !.children = [i \in 1..Len(@) |-> FormatForBatchJobService(@[i])]]

\* _ExtractOperations(raw_request_xml)
ExtractOperations(raw_request_xml) ==
  LET method == GetRawOperationsFromXML(raw_request_xml)
  IN IF method.outcome # "ok" THEN Raised(method.outcome)
     ELSE [outcome |-> "ok",
           xml |-> tostring_all(FormatForBatchJobService(method.element).children)]

HasXsiType(op) == op.xsi_type # NoXsiType

HasKnownXsiType(op) == HasXsiType(op) /\ op.xsi_type \in KnownOperationTypes

\* Mutant: only the presence of a type is verified before the raw request is
\* assembled.
GenerateOperationsXMLPresenceOnly(ops) ==
  IF ops = <<>> THEN [outcome |-> "ok", xml |-> <<>>]
  ELSE IF \E i \in 1..Len(ops) : ~HasXsiType(ops[i])
    THEN Raised("InvalidOperationError")
  ELSE LET raw == GenerateRawRequestXML(ops)
       IN IF raw.outcome # "ok" THEN raw ELSE ExtractOperations(raw.xml)

\* Mutant: no operations give the raw request's empty method element.
GenerateOperationsXMLEmptyMutate(ops) ==
  IF ops = <<>>
    THEN [outcome |-> "ok",
          xml |-> tostring(El("", "mutate", <<>>, "", <<>>))]
  ELSE IF \E i \in 1..Len(ops) : ~HasKnownXsiType(ops[i])
    THEN Raised("InvalidOperationError")
  ELSE LET raw == GenerateRawRequestXML(ops)
       IN IF raw.outcome # "ok" THEN raw ELSE ExtractOperations(raw.xml)

\* _GenerateOperationsXML(operations)
GenerateOperationsXML(ops) ==
  IF ops = <<>> THEN [outcome |-> "ok", xml |-> <<>>]
  ELSE IF \E i \in 1..Len(ops) : ~HasKnownXsiType(ops[i])
    THEN Raised("InvalidOperationError")
  ELSE LET raw == GenerateRawRequestXML(ops)
       IN IF raw.outcome # "ok" THEN raw ELSE ExtractOperations(raw.xml)

-----------------------------------------------------------------------------
(* Direct calls of the BatchJobHelper and of its request builder *)

\* Mutant: the counter is handed out before it is moved.
NextIdStale(id) == id

\* The ID after id in the sequence of temporary IDs.
NextId(id) == id - 1

\* BatchJobHelper.GetId()
GetId ==
  /\ Len(ids) < MaxIds
  /\ temp_id' = NextId(temp_id)
  /\ ids' = Append(ids, temp_id')
  /\ UNCHANGED <<sessionVars, direct, callerVars, exampleVars>>

\* request_builder._GetPaddingLength(length), called directly
GetPaddingLengthCall(length) ==
  /\ direct' = [fn |-> "GetPaddingLength", length |-> length,
                padding |-> GetPaddingLength(length)]
  /\ UNCHANGED <<sessionVars, temp_id, ids, callerVars, exampleVars>>

\* request_builder._GenerateOperationsXML(operations), called directly
GenerateOperationsXMLCall(ops) ==
  /\ direct' = [fn |-> "GenerateOperationsXML", ops |-> ops,
                result |-> GenerateOperationsXML(ops)]
  /\ UNCHANGED <<sessionVars, temp_id, ids, callerVars, exampleVars>>

\* request_builder._GenerateRawRequestXML(operations), called directly
GenerateRawRequestXMLCall(ops) ==
  /\ ops # <<>>
  /\ direct' = [fn |-> "GenerateRawRequestXML", ops |-> ops,
                result |-> GenerateRawRequestXML(ops)]
  /\ UNCHANGED <<sessionVars, temp_id, ids, callerVars, exampleVars>>

\* A raw request as the test fixtures hold it: the envelope of a method with
\* the elements of the operations, none included.
ValidRequests ==
  {tostring(Envelope(MethodOf(ops),
                     [i \in 1..Len(ops) |-> OperationElement(ops[i])])) :
     ops \in {l \in OperationLists :
                l # <<>> /\ \A i \in 1..Len(l) :
                              l[i].xsi_type \in KnownOperationTypes}}
    \cup {tostring(Envelope(method, <<>>)) : method \in MethodTags}

\* Well-formed documents that hold no mutate or mutateLabel element.
InvalidRequests ==
  {tostring(El(ENVELOPE_NS, "Envelope", <<>>, "",
               <<El(ENVELOPE_NS, "Header", <<>>, "", <<>>)>>)),
   tostring(El(ENVELOPE_NS, "Envelope", <<>>, "",
               <<El(ENVELOPE_NS, "Header", <<>>, "", <<>>),
                 El(ENVELOPE_NS, "Body", <<>>, "", <<>>)>>)),
   tostring(Envelope("get", <<>>)),
   tostring(El("", "html", <<>>, "Invalid request.", <<>>))}

\* Texts that are not well-formed XML.
NotRequests ==
  {<<>>,
   <<TextToken("Invalid request.")>>,
   <<OpenTag(Envelope("mutate", <<>>))>>,
   <<OpenTag(Envelope("mutate", <<>>)), CloseTag(El("", "html", <<>>, "", <<>>))>>,
   tostring(Envelope("mutate", <<>>)) \o <<TextToken("trailing")>>}
    \cup {SubSeq(r, 1, Len(r) - 1) : r \in {tostring(Envelope("mutate", <<>>))}}

\* request_builder._GetRawOperationsFromXML(raw_request_xml), called directly
GetRawOperationsFromXMLCall(request) ==
  /\ direct' = [fn |-> "GetRawOperationsFromXML", request |-> request,
                result |-> GetRawOperationsFromXML(request)]
  /\ UNCHANGED <<sessionVars, temp_id, ids, callerVars, exampleVars>>

\* The operations the tests hand to the raw request assembler.
KnownOperationLists ==
  {ops \in OperationLists :
     ops # <<>> /\ \A i \in 1..Len(ops) : HasKnownXsiType(ops[i])}

\* request_builder._FormatForBatchJobService(mutate), called directly on the
\* method element of the raw request of ops
FormatForBatchJobServiceCall(ops) ==
  LET mutate == GetRawOperationsFromXML(GenerateRawRequestXML(ops).xml).element
  IN /\ direct' = [fn |-> "FormatForBatchJobService", ops |-> ops,
                   element |-> mutate,
                   result |-> FormatForBatchJobService(mutate)]
     /\ UNCHANGED <<sessionVars, temp_id, ids, callerVars, exampleVars>>

\* request_builder._ExtractOperations(raw_xml), called directly on the raw
\* request of ops
ExtractOperationsCall(ops) ==
  /\ direct' = [fn |-> "ExtractOperations", ops |-> ops,
                result |-> ExtractOperations(GenerateRawRequestXML(ops).xml)]
  /\ UNCHANGED <<sessionVars, temp_id, ids, callerVars, exampleVars>>

NextDirect ==
  \/ GetId
  \/ \E length \in 0..MaxContentLength : GetPaddingLengthCall(length)
  \/ \E ops \in OperationLists : GenerateOperationsXMLCall(ops)
  \/ \E ops \in OperationLists : GenerateRawRequestXMLCall(ops)
  \/ \E request \in ValidRequests \cup InvalidRequests \cup NotRequests :
       GetRawOperationsFromXMLCall(request)
  \/ \E ops \in KnownOperationLists : FormatForBatchJobServiceCall(ops)
  \/ \E ops \in KnownOperationLists : ExtractOperationsCall(ops)

\* The BatchJobHelper and its request builder, one direct call after another.
SpecDirect == Init /\ [][NextDirect]_vars

-----------------------------------------------------------------------------
(* Response parser *)

\* Texts of a response, as sequences of code points: 'T', 'ア', 'éT', 'アン'.
Texts == {<<84>>, <<12450>>, <<233, 84>>, <<12450, 12531>>}

\* The UTF-8 bytes of one code point below 65536.
EncodeChar(c) ==
  IF c < 128 THEN <<c>>
  ELSE IF c < 2048 THEN <<192 + (c \div 64), 128 + (c % 64)>>
  ELSE <<224 + (c \div 4096), 128 + ((c \div 64) % 64), 128 + (c % 64)>>

RECURSIVE Utf8Encode(_)
\* text.encode('utf-8')
Utf8Encode(cps) ==
  IF cps = <<>> THEN <<>> ELSE EncodeChar(Head(cps)) \o Utf8Encode(Tail(cps))

\* Mutant: every byte is taken for a character of its own.
Utf8DecodeBytewise(bytes) == bytes

RECURSIVE Utf8Decode(_)
\* The text the XML parser reads from UTF-8 bytes.
Utf8Decode(bytes) ==
  IF bytes = <<>> THEN <<>>
  ELSE IF bytes[1] < 128 THEN <<bytes[1]>> \o Utf8Decode(Tail(bytes))
  ELSE IF bytes[1] < 224
    THEN <<(bytes[1] - 192) * 64 + (bytes[2] - 128)>>
           \o Utf8Decode(SubSeq(bytes, 3, Len(bytes)))
  ELSE <<(bytes[1] - 224) * 4096 + (bytes[2] - 128) * 64 + (bytes[3] - 128)>>
         \o Utf8Decode(SubSeq(bytes, 4, Len(bytes)))

\* One result of a mutate response: its type and its fields.
BudgetResult(name) ==
  [xsi_type |-> "Budget", type_field |-> "",
   fields |-> <<Leaf("budgetId", <<50>>), Leaf("name", name)>>]

CampaignResult(name) ==
  [xsi_type |-> "Campaign", type_field |-> "",
   fields |-> <<Leaf("id", <<49>>),
                Leaf("name", name),
                Nested("budget",
                  [xsi_type |-> NoXsiType, type_field |-> "",
                   fields |-> <<Leaf("name", <<84>>),
                                Nested("amount",
                                  [xsi_type |-> NoXsiType, type_field |-> "",
                                   fields |-> <<Leaf("microAmount", <<53, 48>>)>>])>>])>>]

ResultPool ==
  {BudgetResult(t) : t \in Texts} \cup {CampaignResult(t) : t \in Texts}

\* The results of one response: two or more, of any types.
ResultLists == UNION {[1..n -> ResultPool] : n \in 2..MaxResults}

RECURSIVE FieldElement(_, _)
\* The element of one field of a result.
FieldElement(name, field) ==
  IF field.kind = "leaf" THEN El("", name, <<>>, field.text, <<>>)
  ELSE El("", name, <<>>, "",
          [i \in 1..Len(field.node.fields) |->
             FieldElement(field.node.fields[i].name, field.node.fields[i])])

\* <rval><result xsi:type="T">fields</result></rval>
RvalElement(result) ==
  El("", "rval", <<>>, "",
     <<El("", "result",
          <<[name |-> XSI_TYPE, alias |-> "", value |-> result.xsi_type]>>, "",
          [i \in 1..Len(result.fields) |->
             FieldElement(result.fields[i].name, result.fields[i])])>>)

RECURSIVE ResponseText(_)
RECURSIVE ResponseTextAll(_)
\* The text of an element of a response: every element that holds no element
\* holds text.
ResponseText(el) ==
  <<OpenTag(el)>>
    \o (IF el.children = <<>> THEN <<TextToken(el.text)>> ELSE <<>>)
    \o ResponseTextAll(el.children) \o <<CloseTag(el)>>

ResponseTextAll(els) ==
  IF els = <<>> THEN <<>> ELSE ResponseText(Head(els)) \o ResponseTextAll(Tail(els))

\* API_RESPONSE_XML_TEMPLATE filled in: a unicode text
ResponseDocument(results) ==
  ResponseText(El("", "mutateResponse", <<>>, "",
                  [i \in 1..Len(results) |-> RvalElement(results[i])]))

\* document.encode('utf-8')
EncodeDocument(doc) ==
  [i \in 1..Len(doc) |->
     IF doc[i].k = "text" THEN [doc[i] EXCEPT !.text = Utf8Encode(@)] ELSE doc[i]]

TextValue(text) ==
  [kind |-> "text", text |-> text, entries |-> <<>>, items |-> <<>>]

MapValue(entries) ==
  [kind |-> "map", text |-> <<>>, entries |-> entries, items |-> <<>>]

ListValue(items) ==
  [kind |-> "list", text |-> <<>>, entries |-> <<>>, items |-> items]

\* The name of the element's xsi:type, as a 0- or 1-sequence.
TypeName(el) ==
  LET hits == {i \in 1..Len(el.attrib) : el.attrib[i].name = XSI_TYPE}
  IN IF hits = {} THEN <<>> ELSE <<el.attrib[CHOOSE i \in hits : TRUE].value>>

\* Mutant: the type of an element is left out of the mapping.
TypedValueUntyped(el, inner) == inner

\* The value of an element whose content gives inner: keyed by the type's
\* name when the element is typed.
TypedValue(el, inner) ==
  IF TypeName(el) = <<>> THEN inner
  ELSE MapValue(<<[key |-> TypeName(el)[1], value |-> inner]>>)

RECURSIVE ElementValue(_)
\* The value of an element: its text, or the mapping of its children by tag,
\* the children of one tag as a list when they are several.
ElementValue(el) ==
  TypedValue(el,
    IF el.children = <<>> THEN TextValue(Utf8Decode(el.text))
    ELSE
      LET kids == el.children
          first == SelectSeq([i \in 1..Len(kids) |-> i],
                     LAMBDA i : \A j \in 1..(i - 1) : kids[j].tag # kids[i].tag)
      IN MapValue(
           [n \in 1..Len(first) |->
              LET same == SelectSeq(kids, LAMBDA k : k.tag = kids[first[n]].tag)
              IN [key |-> kids[first[n]].tag,
                  value |-> IF Len(same) > 1
                              THEN ListValue([m \in 1..Len(same) |->
                                                ElementValue(same[m])])
                              ELSE ElementValue(same[1])]]))

\* response_parser.ParseResponse(batch_job_response)
ParseResponse(doc) ==
  LET parsed == fromstring(EncodeDocument(doc))
  IN IF ~parsed.ok THEN [outcome |-> "ParseError", value |-> MapValue(<<>>)]
     ELSE [outcome |-> "ok",
           value |-> MapValue(<<[key |-> parsed.root.tag,
                                 value |-> ElementValue(parsed.root)]>>)]

\* response_parser.ParseResponse(API_RESPONSE_XML_TEMPLATE % values)
ParseResponseCall(results) ==
  /\ direct' = [fn |-> "ParseResponse", results |-> results,
                result |-> ParseResponse(ResponseDocument(results))]
  /\ UNCHANGED <<sessionVars, temp_id, ids, callerVars, exampleVars>>

-----------------------------------------------------------------------------
(* Report downloader: the error of a failed download *)

\* The value None.
None == "<None>"

\* An attribute the error class does not have.
NoAttribute == "<no attribute>"

\* An element the document does not hold.
Missing == "<missing>"

ResponseCodes == {400, 500}

\* What a field of the error document is: an element with text, an empty
\* element, or no element.
TypeTexts == {"ReportDownloadError.INVALID_REPORT_DEFINITION_XML", "", Missing}

TriggerTexts == {"Invalid enumeration.", "", Missing}

FieldPathTexts == {"Criteria.Type", "", Missing}

FieldElements(name, text) ==
  IF text = Missing THEN <<>> ELSE <<El("", name, <<>>, text, <<>>)>>

\* <reportDownloadError><ApiError><type>..</type><trigger>..</trigger>
\* <fieldPath>..</fieldPath></ApiError></reportDownloadError>
ErrorDocument(type, trigger, field_path) ==
  tostring(El("", "reportDownloadError", <<>>, "",
              <<El("", "ApiError", <<>>, "",
                   FieldElements("type", type) \o FieldElements("trigger", trigger)
                     \o FieldElements("fieldPath", field_path))>>))

WellFormedErrors ==
  {ErrorDocument(t, g, f) : t \in TypeTexts, g \in TriggerTexts, f \in FieldPathTexts}

\* ...<trigger>5678</trigger></ApiError></ExtraElement></reportDownloadError>
MalformedErrors ==
  {<<OpenTag(El("", "reportDownloadError", <<>>, "", <<>>))>>
     \o tostring(El("", "ApiError", <<>>, "",
                    <<El("", "type", <<>>, "1234", <<>>),
                      El("", "trigger", <<>>, "5678", <<>>)>>))
     \o <<CloseTag(El("", "ExtraElement", <<>>, "", <<>>)),
          CloseTag(El("", "reportDownloadError", <<>>, "", <<>>))>>,
   <<OpenTag(El("", "reportDownloadError", <<>>, "", <<>>))>>}

\* 'Page not found!', nothing, and a well-formed page that is not an error
\* document.
OtherBodies ==
  {<<TextToken("Page not found!")>>, <<>>,
   tostring(El("", "html", <<>>, "Page not found!", <<>>))}

ErrorResponses ==
  [code : ResponseCodes,
   body : WellFormedErrors \cup MalformedErrors \cup OtherBodies]

\* tree.find('./ApiError/<name>').text, None when there is no text
ApiErrorText(root, name) ==
  LET api == Find(root, "", "ApiError")
      field == IF api = <<>> THEN <<>> ELSE Find(api[1], "", name)
  IN IF field = <<>> THEN None
     ELSE IF field[1].text = "" THEN None ELSE field[1].text

\* googleads.errors.AdWordsReportError(code, error, content)
AdWordsReportError(response, content) ==
  [class |-> "AdWordsReportError", type |-> NoAttribute,
   trigger |-> NoAttribute, field_path |-> NoAttribute,
   code |-> response.code, error |-> response, content |-> content]

\* googleads.errors.AdWordsReportBadRequestError(type, trigger, field_path,
\* code, error, content)
AdWordsReportBadRequestError(type, trigger, field_path, response, content) ==
  [class |-> "AdWordsReportBadRequestError", type |-> type,
   trigger |-> trigger, field_path |-> field_path,
   code |-> response.code, error |-> response, content |-> content]

Returned(value) == [outcome |-> "returned", value |-> value]

\* Mutant: the parse error of a malformed body reaches the caller.
ExtractErrorParseErrorEscapes(response) ==
  LET content == response.body
      tree == fromstring(content)
  IN IF ~tree.ok
       THEN [outcome |-> "ParseError",
             value |-> AdWordsReportError(response, content)]
     ELSE IF tree.root.tag = "reportDownloadError"
       THEN Returned(AdWordsReportBadRequestError(
                       ApiErrorText(tree.root, "type"),
                       ApiErrorText(tree.root, "trigger"),
                       ApiErrorText(tree.root, "fieldPath"),
                       response, content))
     ELSE Returned(AdWordsReportError(response, content))

\* report_downloader._ExtractError(error)
ExtractError(response) ==
  LET content == response.body
      tree == fromstring(content)
  IN IF tree.ok /\ tree.root.tag = "reportDownloadError"
       THEN Returned(AdWordsReportBadRequestError(
                       ApiErrorText(tree.root, "type"),
                       ApiErrorText(tree.root, "trigger"),
                       ApiErrorText(tree.root, "fieldPath"),
                       response, content))
       ELSE Returned(AdWordsReportError(response, content))

\* report_downloader._ExtractError(response), called directly
ExtractErrorCall(response) ==
  /\ direct' = [fn |-> "ExtractError", response |-> response,
                result |-> ExtractError(response)]
  /\ UNCHANGED <<sessionVars, temp_id, ids, callerVars, exampleVars>>

NextParsers ==
  \/ \E results \in ResultLists : ParseResponseCall(results)
  \/ \E response \in ErrorResponses : ExtractErrorCall(response)

\* The response parser and the report downloader's error extraction, one
\* direct call after another.
SpecParsers == Init /\ [][NextParsers]_vars

-----------------------------------------------------------------------------
(* UploadOperations step by step, for callers that share one helper *)

callerFrame ==
  <<live, upload_url, version, base, uploaded, call, opened, probes, file,
    built, directVars, exampleVars, serialised>>

\* Mutant: a caller may start while another caller's call is in progress,
\* whatever the callers agreed.
MayBeginAnyTime(t) == TRUE

\* Whether caller t may start a call: callers that serialise their calls
\* wait until no call is in progress.
MayBegin(t) == serialised => \A u \in Callers : threads[u].pc = "idle"

\* UploadOperations, first part: the finished flag is checked and the request
\* is built from the helper's current_content_length.
BeginUpload(t, xml, last) ==
  /\ live
  /\ threads[t].pc = "idle"
  /\ MayBegin(t)
  /\ IF is_last
       THEN threads' = [threads EXCEPT
                          ![t] = [Idle EXCEPT !.outcome = "InvalidOperationError"]]
       ELSE LET req == BuildUploadRequest(upload_url, xml, last,
                                          current_content_length)
            IN /\ current_content_length + Len(req.data) <= MaxContentLength
               /\ threads' = [threads EXCEPT
                                ![t] = [pc |-> "built", outcome |-> "none",
                                        from |-> current_content_length,
                                        last |-> last, req |-> <<req>>]]
  /\ UNCHANGED <<current_content_length, is_last, puts, callerFrame>>

\* UploadOperations, second part: the transport accepts the request.
SendUpload(t) ==
  /\ threads[t].pc = "built"
  /\ Len(puts) < MaxUploads
  /\ puts' = Append(puts, threads[t].req[1])
  /\ threads' = [threads EXCEPT ![t].pc = "sent"]
  /\ UNCHANGED <<current_content_length, is_last, callerFrame>>

\* UploadOperations, second part: the transport raises.
SendUploadFails(t) ==
  /\ threads[t].pc = "built"
  /\ threads' = [threads EXCEPT ![t] = [Idle EXCEPT !.outcome = "TransportError"]]
  /\ UNCHANGED <<current_content_length, is_last, puts, callerFrame>>

\* UploadOperations, last part: the session is advanced by the request sent.
FinishUpload(t) ==
  /\ threads[t].pc = "sent"
  /\ Advance(threads[t].req[1], threads[t].last)
  /\ threads' = [threads EXCEPT ![t] = [Idle EXCEPT !.outcome = "ok"]]
  /\ UNCHANGED <<puts, callerFrame>>

InitCallers == InitSession /\ serialised \in BOOLEAN

NextCallers ==
  \/ \E v \in Versions, seed \in SeedURLs, resp \in ProbeResponses :
       GetIncrementalUploadHelper(v, seed, resp)
  \/ \E t \in Callers, xml \in OperationsXML, last \in BOOLEAN :
       BeginUpload(t, xml, last)
  \/ \E t \in Callers : SendUpload(t)
  \/ \E t \in Callers : SendUploadFails(t)
  \/ \E t \in Callers : FinishUpload(t)

\* Two callers of one helper, serialising their calls or not.
SpecCallers == InitCallers /\ [][NextCallers]_vars

-----------------------------------------------------------------------------
(* The examples' paging loop *)

exampleFrame == <<sessionVars, directVars, callerVars>>

\* What the service answers: a page with or without 'results', and the size
\* of the whole result set.
PageResponses == [has_results : BOOLEAN, totalResultSetSize : 0..MaxTotal]

\* Mutant: the offset moves on after every response.
NextOffsetAlways(offset, page) == offset + SUGGESTED_PAGE_LIMIT

\* statement.offset after the response to the statement at offset.
NextOffset(offset, page) ==
  IF page.has_results THEN offset + SUGGESTED_PAGE_LIMIT ELSE offset

\* One turn of 'while True': the statement is sent, the response is looked at.
GetPage(page) ==
  /\ pc = "loop"
  /\ page.has_results => Len(requested) < MaxPages
  /\ requested' = Append(requested, statement_offset)
  /\ page_response' = page
  /\ statement_offset' = NextOffset(statement_offset, page)
  /\ pc' = IF page.has_results THEN "loop" ELSE "break"
  /\ UNCHANGED <<printed, exampleFrame>>

\* print 'Number of results found: %s' % response['totalResultSetSize']
PrintTotal ==
  /\ pc = "break"
  /\ printed' = page_response.totalResultSetSize
  /\ pc' = "done"
  /\ UNCHANGED <<statement_offset, page_response, requested, exampleFrame>>

NextExample ==
  \/ \E page \in PageResponses : GetPage(page)
  \/ PrintTotal

\* main(client) of an example: a sequential program goes on after the loop.
SpecExample == Init /\ [][NextExample]_vars /\ WF_vars(PrintTotal)

-----------------------------------------------------------------------------
(* Reading a request back, as a server or a test would *)

IndexOf(seq, tok) ==
  CHOOSE i \in 1..Len(seq) : seq[i] = tok /\ \A j \in 1..(i - 1) : seq[j] # tok

RangeStart(cr) == ParseInt(SubSeq(cr, 3, IndexOf(cr, "-") - 1))

RangeEnd(cr) == ParseInt(SubSeq(cr, IndexOf(cr, "-") + 1, IndexOf(cr, "/") - 1))

RangeTotalField(cr) == SubSeq(cr, IndexOf(cr, "/") + 1, Len(cr))

RECURSIVE SumOfLengths(_)
SumOfLengths(reqs) ==
  IF reqs = <<>> THEN 0
  ELSE Len(reqs[Len(reqs)].data) + SumOfLengths(SubSeq(reqs, 1, Len(reqs) - 1))

\* A step taken on the helper object at hand: any call but Load, which makes
\* a new helper.
SameHelperStep == live /\ live' /\ call'.op # "Load"

UploadStep == call'.op = "UploadOperations"

-----------------------------------------------------------------------------
(* Claims *)

\* C1: once a helper has is_last set by a successful final UploadOperations,
\* every later UploadOperations call on that helper fails with
\* InvalidOperationError, sends nothing, and the helper stays finished.
C1_TerminalAbsorbing ==
  [][(SameHelperStep /\ is_last) =>
       /\ is_last'
       /\ UploadStep => (call'.outcome = "InvalidOperationError" /\ opened' = <<>>)]_vars

\* C1 witness: an upload was refused on a helper whose last accepted chunk
\* was a final one.
C1_Witness ==
  /\ live /\ is_last
  /\ call.op = "UploadOperations" /\ call.outcome = "InvalidOperationError"
  /\ call.pre_is_last
  /\ uploaded # <<>>
  /\ RangeTotalField(uploaded[Len(uploaded)].headers.ContentRange) # <<"*">>

\* C2: for a helper created with current_content_length 0 the length is the
\* sum of the body lengths of the accepted uploads; it never decreases and
\* changes only by a successful upload, by the length of the body sent.
C2_ContentLengthIsSumOfUploads ==
  /\ []((live /\ base = 0) => current_content_length = SumOfLengths(uploaded))
  /\ [][SameHelperStep =>
          /\ current_content_length' >= current_content_length
          /\ current_content_length' # current_content_length =>
               /\ UploadStep /\ call'.outcome = "ok"
               /\ Len(opened') = 1
               /\ opened'[1].headers.ContentLength = Len(opened'[1].data)
               /\ current_content_length' =
                    current_content_length + Len(opened'[1].data)]_vars

\* C2 witness: two chunks accepted, the second one not empty.
C2_Witness ==
  /\ live /\ base = 0
  /\ Len(uploaded) >= 2
  /\ Len(uploaded[1].data) > 0
  /\ Len(uploaded[2].data) > 0
  /\ current_content_length = Len(uploaded[1].data) + Len(uploaded[2].data)

\* C3: when the transport raises, current_content_length, is_last and
\* upload_url are as before the call, the error reaches the caller, the
\* transport was invoked once, and the next upload attempt starts its
\* Content-range where the failed one did.
C3_TransportErrorLeavesState ==
  /\ []((call.op = "UploadOperations" /\ call.outcome = "TransportError") =>
          /\ live
          /\ current_content_length = call.pre_ccl
          /\ is_last = call.pre_is_last
          /\ ~is_last
          /\ upload_url = call.pre_url
          /\ Len(opened) = 1)
  /\ [][(/\ call.op = "UploadOperations" /\ call.outcome = "TransportError"
         /\ UploadStep /\ opened' # <<>>) =>
          RangeStart(opened'[1].headers.ContentRange)
            = RangeStart(opened[1].headers.ContentRange)]_vars

\* C3 witness: a final chunk failed after an earlier chunk had been accepted.
C3_Witness ==
  /\ call.op = "UploadOperations" /\ call.outcome = "TransportError"
  /\ Len(opened) = 1
  /\ RangeTotalField(opened[1].headers.ContentRange) # <<"*">>
  /\ current_content_length > 0
  /\ ~is_last

\* The helper as it was before the last call, as a mapping of its four fields.
PreData ==
  [current_content_length |-> call.pre_ccl, is_last |-> call.pre_is_last,
   upload_url |-> call.pre_url, version |-> call.pre_version]

CurrentData ==
  [current_content_length |-> current_content_length, is_last |-> is_last,
   upload_url |-> upload_url, version |-> version]

\* The last call was a Load of the text Dump wrote for the helper at hand.
LoadedOwnDump == call.op = "Load" /\ call.pre_live /\ file = YamlDump(PreData)

KeyNames == {"current_content_length", "is_last", "upload_url", "version"}

IsKey(token) == token \in KeyNames

\* C5: Dump writes one newline-terminated line with the four keys in sorted
\* order and nothing else; for a freshly initialised helper the line is
\* {current_content_length: 0, is_last: false, upload_url: '<resolved url>',
\* version: <version>}\n, with the resolved URL and not the seed URL.
C5_DumpFormat ==
  call.op = "Dump" =>
    /\ SelectSeq(file, IsKey) =
         <<"current_content_length", "is_last", "upload_url", "version">>
    /\ file[1] = "{"
    /\ file[Len(file) - 1] = "}"
    /\ file[Len(file)] = "\n"
    /\ \A i \in 1..(Len(file) - 1) : file[i] # "\n"
    /\ \A i \in 1..Len(file) : file[i] \notin SeedURLs
    /\ (current_content_length = 0 /\ ~is_last) =>
         file = <<"{", "current_content_length", ": ", "0", ", ",
                  "is_last", ": ", "false", ", ",
                  "upload_url", ": ", "'", upload_url, "'", ", ",
                  "version", ": ", version, "}", "\n">>

\* C5 witness: a helper just initialised from the seed URL was dumped.
C5_Witness ==
  /\ call.op = "Dump"
  /\ live /\ current_content_length = 0 /\ ~is_last /\ uploaded = <<>>
  /\ upload_url = "https://goo.gl/Xtaq83"
  /\ Len(file) = 20

C7_Initialize ==
  call.op = "GetIncrementalUploadHelper" =>
    /\ Len(probes) = 1
    /\ probes[1].url \in SeedURLs
    /\ IF \E h \in probes[1].response.headers : h[1] = "location"
         THEN /\ call.outcome = "ok"
              /\ live
              /\ <<"location", upload_url>> \in probes[1].response.headers
              /\ current_content_length = 0
              /\ ~is_last
         ELSE /\ call.outcome = "UploadInitializationError"
              /\ ~live

\* C7 witness: a probe answered without a location left no helper.
C7_Witness ==
  /\ call.op = "GetIncrementalUploadHelper"
  /\ call.outcome = "UploadInitializationError"
  /\ ~live
  /\ Len(probes) = 1 /\ probes[1].response.headers = {}

\* The body the builder's last call made from its arguments, before padding.
BuiltBody ==
  BuildUploadRequestBody(built[1].xml, built[1].current_content_length = 0,
                         built[1].is_last)

\* C8: every request built is a PUT of type application/xml whose
\* Content-length is the length of the padded body and whose Content-range
\* is 'bytes start-end/...' with start = current_content_length and
\* end = start + Content-length - 1.
C8_RequestHeaders ==
  built # <<>> =>
    LET b == built[1]
        r == b.request
        cr == r.headers.ContentRange
    IN /\ r.method = "PUT"
       /\ r.url = b.url
       /\ r.headers.ContentType = "application/xml"
       /\ r.headers.ContentLength = Len(r.data)
       /\ Len(r.data) >= Len(BuiltBody)
       /\ SubSeq(r.data, 1, Len(BuiltBody)) = BuiltBody
       /\ cr[1] = "bytes" /\ cr[2] = " "
       /\ RangeStart(cr) = b.current_content_length
       /\ RangeEnd(cr) = b.current_content_length + r.headers.ContentLength - 1

\* C8 witness: a padded final chunk built for a session with uploaded bytes.
C8_Witness ==
  /\ built # <<>>
  /\ built[1].is_last
  /\ built[1].current_content_length > 0
  /\ Len(built[1].request.data) > Len(BuiltBody)

\* C9 as stated: the total of Content-range is the increment for a chunk
\* that is not final and '*' for the final chunk.
C9_TotalIsIncrementOrStar ==
  built # <<>> =>
    RangeTotalField(built[1].request.headers.ContentRange) =
      IF built[1].is_last THEN <<"*">> ELSE Digits(BATCH_JOB_INCREMENT)

\* C9 amended: the total of Content-range is '*' for every chunk that is not
\* final and the cumulative length, end + 1, for the final chunk: a chunk of
\* increment bytes that is not final yields 'bytes 0-{increment-1}/*' at
\* offset 0 and 'bytes {increment}-{2*increment-1}/*' at offset increment.
C9_TotalIsStarOrCumulative ==
  built # <<>> =>
    LET b == built[1]
        r == b.request
        cr == r.headers.ContentRange
    IN /\ RangeTotalField(cr) =
            IF b.is_last THEN Digits(RangeEnd(cr) + 1) ELSE <<"*">>
       /\ (~b.is_last /\ Len(r.data) = BATCH_JOB_INCREMENT
             /\ b.current_content_length = 0) =>
            cr = <<"bytes", " ", "0", "-">> \o Digits(BATCH_JOB_INCREMENT - 1)
                   \o <<"/", "*">>
       /\ (~b.is_last /\ Len(r.data) = BATCH_JOB_INCREMENT
             /\ b.current_content_length = BATCH_JOB_INCREMENT) =>
            cr = <<"bytes", " ">> \o Digits(BATCH_JOB_INCREMENT) \o <<"-">>
                   \o Digits(2 * BATCH_JOB_INCREMENT - 1) \o <<"/", "*">>

\* C9 witness: a chunk of increment bytes, not final, built at offset increment.
C9_Witness ==
  /\ built # <<>>
  /\ ~built[1].is_last
  /\ built[1].current_content_length = BATCH_JOB_INCREMENT
  /\ Len(built[1].request.data) = BATCH_JOB_INCREMENT

-----------------------------------------------------------------------------
(* Padding, framing and temporary IDs *)

Padding(n) == [i \in 1..n |-> PAD]

\* The padding the builder's last call appended to the body.
BuiltPadding == Len(built[1].request.data) - Len(BuiltBody)

\* C11 as stated: a chunk that is not final is padded to a multiple of the
\* increment, by increment - (length mod increment) bytes or by none when
\* aligned, and a final chunk receives no padding.
C11_FinalChunkUnpadded ==
  built # <<>> =>
    /\ ~built[1].is_last =>
         /\ Len(built[1].request.data) % BATCH_JOB_INCREMENT = 0
         /\ BuiltPadding =
              IF Len(BuiltBody) % BATCH_JOB_INCREMENT = 0 THEN 0
              ELSE BATCH_JOB_INCREMENT - (Len(BuiltBody) % BATCH_JOB_INCREMENT)
    /\ built[1].is_last => built[1].request.data = BuiltBody

\* C11 amended: every chunk, final or not, is padded with whitespace to a
\* multiple of the increment: by increment - (length mod increment) bytes
\* when its length is not aligned and by exactly none when it is.
C11_EveryChunkPadded ==
  built # <<>> =>
    /\ Len(built[1].request.data) % BATCH_JOB_INCREMENT = 0
    /\ BuiltPadding =
         IF Len(BuiltBody) % BATCH_JOB_INCREMENT = 0 THEN 0
         ELSE BATCH_JOB_INCREMENT - (Len(BuiltBody) % BATCH_JOB_INCREMENT)
    /\ built[1].request.data = BuiltBody \o Padding(BuiltPadding)

\* C11 witness: a final chunk, not aligned, that was padded.
C11_Witness ==
  /\ built # <<>>
  /\ built[1].is_last
  /\ Len(BuiltBody) % BATCH_JOB_INCREMENT # 0
  /\ BuiltPadding = BATCH_JOB_INCREMENT - (Len(BuiltBody) % BATCH_JOB_INCREMENT)

\* C12 as stated: for every 0 <= length < increment, _GetPaddingLength(length)
\* is increment - length.
C12_PaddingBelowIncrementFromZero ==
  (direct.fn = "GetPaddingLength" /\ direct.length < BATCH_JOB_INCREMENT) =>
    direct.padding = BATCH_JOB_INCREMENT - direct.length

\* C12 amended: for every 0 < length < increment, _GetPaddingLength(length) is
\* increment - length; for length 0, which is aligned, it is 0.
C12_PaddingBelowIncrement ==
  direct.fn = "GetPaddingLength" =>
    /\ (0 < direct.length /\ direct.length < BATCH_JOB_INCREMENT) =>
         direct.padding = BATCH_JOB_INCREMENT - direct.length
    /\ direct.length = 0 => direct.padding = 0

\* C12 witness: the padding of a length strictly between 0 and the increment.
C12_Witness ==
  /\ direct.fn = "GetPaddingLength"
  /\ direct.length = 1
  /\ direct.padding = BATCH_JOB_INCREMENT - 1

StartsWith(seq, p) == Len(seq) >= Len(p) /\ SubSeq(seq, 1, Len(p)) = p

EndsWith(seq, p) ==
  Len(seq) >= Len(p) /\ SubSeq(seq, Len(seq) - Len(p) + 1, Len(seq)) = p

RECURSIVE RStrip(_)
\* The data without the whitespace that ends it.
RStrip(seq) ==
  IF seq # <<>> /\ seq[Len(seq)] = PAD
    THEN RStrip(SubSeq(seq, 1, Len(seq) - 1))
    ELSE seq

\* C13: the body of a request starts with the upload prefix exactly when
\* current_content_length is 0 and ends with the upload suffix exactly when
\* is_last is true; _BuildUploadRequestBody gives prefix + operations + suffix,
\* operations + suffix, prefix + operations or operations alone as has_prefix
\* and has_suffix say, each of them true when it is omitted.
C13_PrefixAndSuffix ==
  /\ built # <<>> =>
       /\ StartsWith(RStrip(built[1].request.data), UPLOAD_PREFIX)
            <=> built[1].current_content_length = 0
       /\ EndsWith(RStrip(built[1].request.data), UPLOAD_SUFFIX)
            <=> built[1].is_last
  /\ direct.fn = "BuildUploadRequestBody" =>
       LET p == direct.has_prefix # "False"
           s == direct.has_suffix # "False"
       IN direct.body =
            CASE p /\ s -> UPLOAD_PREFIX \o direct.xml \o UPLOAD_SUFFIX
              [] ~p /\ s -> direct.xml \o UPLOAD_SUFFIX
              [] p /\ ~s -> UPLOAD_PREFIX \o direct.xml
              [] OTHER -> direct.xml

\* C13 witness: a final continuation chunk was built, and the body builder was
\* called with has_prefix omitted and has_suffix false.
C13_Witness ==
  /\ built # <<>>
  /\ built[1].is_last
  /\ built[1].current_content_length > 0
  /\ built[1].xml # <<>>
  /\ direct.fn = "BuildUploadRequestBody"
  /\ direct.has_prefix = "omitted"
  /\ direct.has_suffix = "False"
  /\ direct.xml # <<>>

\* C14: the k-th call of GetId() on a fresh helper returns -k: the IDs are
\* -1, -2, -3, ..., strictly decreasing.
C14_GetIdCountsDown ==
  \A k \in 1..Len(ids) : ids[k] = -k

\* C14 witness: a third call handed out -3.
C14_Witness ==
  /\ Len(ids) >= 3
  /\ ids[3] = -3

-----------------------------------------------------------------------------
(* Operation XML *)

\* The operations of the last direct call are all of a known type.
AllKnown(ops) ==
  \A i \in 1..Len(ops) : ops[i].xsi_type \in KnownOperationTypes

\* C15: _GenerateOperationsXML of an empty sequence of operations returns the
\* empty string, not an envelope or an empty element.
C15_NoOperationsNoXML ==
  (direct.fn = "GenerateOperationsXML" /\ direct.ops = <<>>) =>
    direct.result = [outcome |-> "ok", xml |-> <<>>]

\* C15 witness: the generator was called with no operations.
C15_Witness ==
  /\ direct.fn = "GenerateOperationsXML"
  /\ direct.ops = <<>>
  /\ direct.result.outcome = "ok"

RECURSIVE NodeMatches(_, _)
\* The element holds the mapping: its type child when it is typed, then one
\* child for each field, in order, with the field's text or mapping.
NodeMatches(el, node) ==
  LET off == IF node.xsi_type = NoXsiType THEN 0 ELSE 1
  IN /\ Len(el.children) = Len(node.fields) + off
     /\ off = 1 =>
          /\ el.children[1].tag = node.type_field
          /\ el.children[1].text = node.xsi_type
     /\ \A i \in 1..Len(node.fields) :
          LET child == el.children[i + off]
              field == node.fields[i]
          IN /\ child.tag = field.name
             /\ IF field.kind = "leaf"
                  THEN child.text = field.text /\ child.children = <<>>
                  ELSE NodeMatches(child, field.node)

\* C16: for operations of a known type, not none,
\* _GetRawOperationsFromXML(_GenerateRawRequestXML(ops)) is a method element
\* with exactly len(ops) 'operations' children, the i-th for the i-th
\* operation, each with that operation's operator and type tag and an
\* operand with exactly the operand's fields.
C16_RawRequestRoundTrip ==
  (direct.fn = "GenerateRawRequestXML" /\ AllKnown(direct.ops)) =>
    /\ direct.result.outcome = "ok"
    /\ LET mutate == GetRawOperationsFromXML(direct.result.xml)
       IN /\ mutate.outcome = "ok"
          /\ mutate.element.tag \in MethodTags
          /\ Len(mutate.element.children) = Len(direct.ops)
          /\ \A i \in 1..Len(direct.ops) :
               LET child == mutate.element.children[i]
                   op == direct.ops[i]
               IN /\ child.tag = "operations"
                  /\ Len(child.children) = 3
                  /\ child.children[1].tag = "operator"
                  /\ child.children[1].text = op.operator
                  /\ child.children[2].tag = "Operation.Type"
                  /\ child.children[2].text = op.xsi_type
                  /\ child.children[3].tag = "operand"
                  /\ NodeMatches(child.children[3], op.operand)

\* C16 witness: a raw request of two different operations, the operand of
\* one holding a typed mapping.
C16_Witness ==
  /\ direct.fn = "GenerateRawRequestXML"
  /\ Len(direct.ops) = 2
  /\ direct.ops[1] # direct.ops[2]
  /\ direct.ops[1].xsi_type = "CampaignCriterionOperation"
  /\ direct.result.outcome = "ok"

\* C17: the envelope _GenerateRawRequestXML produces has exactly two children,
\* Header and Body, and Body has exactly one child: mutateLabel for
\* operations of type CampaignLabelOperation, mutate for any other type.
C17_EnvelopeShape ==
  (direct.fn = "GenerateRawRequestXML" /\ direct.result.outcome = "ok") =>
    LET parsed == fromstring(direct.result.xml)
        root == parsed.root
    IN /\ parsed.ok
       /\ root.ns = ENVELOPE_NS /\ root.tag = "Envelope"
       /\ Len(root.children) = 2
       /\ root.children[1].ns = ENVELOPE_NS /\ root.children[1].tag = "Header"
       /\ root.children[2].ns = ENVELOPE_NS /\ root.children[2].tag = "Body"
       /\ Len(root.children[2].children) = 1
       /\ root.children[2].children[1].ns = ADWORDS_NS
       /\ root.children[2].children[1].tag =
            IF \A i \in 1..Len(direct.ops) :
                 direct.ops[i].xsi_type = "CampaignLabelOperation"
              THEN "mutateLabel" ELSE "mutate"

\* C17 witness: an envelope for CampaignLabelOperations.
C17_Witness ==
  /\ direct.fn = "GenerateRawRequestXML"
  /\ direct.result.outcome = "ok"
  /\ direct.ops[1].xsi_type = "CampaignLabelOperation"
  /\ Find(Find(fromstring(direct.result.xml).root, ENVELOPE_NS, "Body")[1],
          ADWORDS_NS, "mutateLabel") # <<>>

C19_UnknownTypeKeyError ==
  (direct.fn = "GenerateRawRequestXML"
     /\ \E i \in 1..Len(direct.ops) :
          direct.ops[i].xsi_type \notin KnownOperationTypes) =>
    /\ direct.result.outcome = "KeyError"
    /\ direct.result.xml = <<>>

\* C19 witness: the raw request of the one bogus operation.
C19_Witness ==
  /\ direct.fn = "GenerateRawRequestXML"
  /\ direct.ops = <<BogusOperation>>
  /\ direct.result.outcome = "KeyError"

\* How many elements are open after the first i tags.
Depth(tags, i) ==
  Cardinality({j \in 1..i : tags[j].k = "open"})
    - Cardinality({j \in 1..i : tags[j].k = "close"})

\* The tag that opened the element tag i closes.
Opener(tags, i) ==
  CHOOSE j \in 1..(i - 1) :
    /\ tags[j].k = "open"
    /\ Depth(tags, j - 1) = Depth(tags, i)
    /\ \A m \in (j + 1)..(i - 1) : Depth(tags, m) > Depth(tags, i)

\* A sequence of tags is the tags of one well-formed document: one element
\* holds everything, and every closing tag closes the element that is open.
Balanced(tags) ==
  /\ tags # <<>>
  /\ Depth(tags, Len(tags)) = 0
  /\ \A i \in 1..(Len(tags) - 1) : Depth(tags, i) > 0
  /\ \A i \in 1..Len(tags) :
       tags[i].k = "close" =>
         /\ tags[Opener(tags, i)].ns = tags[i].ns
         /\ tags[Opener(tags, i)].tag = tags[i].tag

\* The text tokens taken out: what is left is the nesting of the tags.
Tags(text) == SelectSeq(text, LAMBDA t : t.k # "text")

\* The document holds a mutate or mutateLabel element.
HasMethodTag(text) ==
  \E i \in 1..Len(text) : text[i].k = "open" /\ text[i].tag \in MethodTags

\* C20: _GetRawOperationsFromXML fails with ParseError on input that is not
\* well-formed XML and with AttributeError on well-formed XML that holds no
\* mutate or mutateLabel element; a well-formed request with a mutate element
\* and no operations succeeds and returns a mutate element with no children.
C20_ExtractorFailures ==
  direct.fn = "GetRawOperationsFromXML" =>
    /\ direct.request \in NotRequests => direct.result.outcome = "ParseError"
    /\ ~Balanced(Tags(direct.request)) =>
         direct.result.outcome = "ParseError"
    /\ (Balanced(Tags(direct.request)) /\ ~HasMethodTag(direct.request)) =>
         direct.result.outcome = "AttributeError"
    /\ direct.request = tostring(Envelope("mutate", <<>>)) =>
         /\ direct.result.outcome = "ok"
         /\ direct.result.element.ns = ADWORDS_NS
         /\ direct.result.element.tag = "mutate"
         /\ direct.result.element.children = <<>>

\* C20 witness: a well-formed envelope whose Body holds another element was
\* refused with AttributeError.
C20_Witness ==
  /\ direct.fn = "GetRawOperationsFromXML"
  /\ direct.request = tostring(Envelope("get", <<>>))
  /\ direct.result.outcome = "AttributeError"

-----------------------------------------------------------------------------
(* Formatting for the batch job service *)

RECURSIVE Descendants(_)
\* The element and every element under it.
Descendants(el) ==
  {el} \cup UNION {Descendants(el.children[i]) : i \in 1..Len(el.children)}

RECURSIVE SameButNames(_, _)
\* Two trees differ at most in the namespaces of their tags and in the
\* aliases of their attributes' values.
SameButNames(a, b) ==
  /\ a.tag = b.tag
  /\ a.text = b.text
  /\ Len(a.attrib) = Len(b.attrib)
  /\ \A i \in 1..Len(a.attrib) :
       a.attrib[i].name = b.attrib[i].name /\ a.attrib[i].value = b.attrib[i].value
  /\ Len(a.children) = Len(b.children)
  /\ \A i \in 1..Len(a.children) : SameButNames(a.children[i], b.children[i])

\* The value of the element's xsi:type attribute as its text reads, alias
\* and name, or nothing when the element has no such attribute.
XsiTypeOf(el) ==
  LET hits == {i \in 1..Len(el.attrib) : el.attrib[i].name = XSI_TYPE}
  IN IF hits = {} THEN <<>>
     ELSE LET a == el.attrib[CHOOSE i \in hits : TRUE]
          IN <<a.alias, a.value>>

\* C21: after _FormatForBatchJobService(element) no tag in the subtree holds
\* the AdWords namespace, the operations children are as many as before,
\* every typed element keeps exactly one attribute, xsi:type, whose value has
\* no namespace alias; the operations _ExtractOperations returns carry the
\* input's type names as xsi:type on the operation, its operand and the
\* operand's criterion.
C21_FormattedForBatchJobService ==
  /\ direct.fn = "FormatForBatchJobService" =>
       /\ \A e \in Descendants(direct.result) :
            /\ e.ns # ADWORDS_NS
            /\ \A i \in 1..Len(e.attrib) : e.attrib[i].alias = ""
       /\ Len(direct.result.children) = Len(direct.ops)
       /\ SameButNames(direct.element, direct.result)
       /\ \A e \in Descendants(direct.element) : e.ns = ADWORDS_NS
       /\ \A i \in 1..Len(direct.ops) :
            LET operation == direct.result.children[i]
            IN /\ operation.tag = "operations"
               /\ Len(operation.attrib) = 1
               /\ XsiTypeOf(operation) = <<"", direct.ops[i].xsi_type>>
  /\ direct.fn = "ExtractOperations" =>
       /\ direct.result.outcome = "ok"
       /\ LET body == fromstring(<<OpenTag(El("", "body", <<>>, "", <<>>))>>
                                   \o direct.result.xml
                                   \o <<CloseTag(El("", "body", <<>>, "", <<>>))>>)
          IN /\ body.ok
             /\ Len(body.root.children) = Len(direct.ops)
             /\ \A i \in 1..Len(direct.ops) :
                  LET op == direct.ops[i]
                      operation == body.root.children[i]
                      operand == Find(operation, "", "operand")
                  IN /\ operation.ns = "" /\ operation.tag = "operations"
                     /\ XsiTypeOf(operation) = <<"", op.xsi_type>>
                     /\ operand # <<>>
                     /\ XsiTypeOf(operand[1]) =
                          IF op.operand.xsi_type = NoXsiType THEN <<>>
                          ELSE <<"", op.operand.xsi_type>>
                     /\ \A f \in 1..Len(op.operand.fields) :
                          LET field == op.operand.fields[f]
                              child == Find(operand[1], "", field.name)
                          IN field.kind = "node" =>
                               /\ child # <<>>
                               /\ XsiTypeOf(child[1]) =
                                    IF field.node.xsi_type = NoXsiType THEN <<>>
                                    ELSE <<"", field.node.xsi_type>>

\* C21 witness: the method element of two CampaignCriterionOperations was
\* formatted, and the alias of its first operation's type went away.
C21_Witness ==
  /\ direct.fn = "FormatForBatchJobService"
  /\ Len(direct.ops) = 2
  /\ direct.ops[1].xsi_type = "CampaignCriterionOperation"
  /\ XsiTypeOf(direct.element.children[1]) = <<NS_ALIAS, "CampaignCriterionOperation">>
  /\ XsiTypeOf(direct.result.children[1]) = <<"", "CampaignCriterionOperation">>

-----------------------------------------------------------------------------
(* Responses *)

\* mapping[key]
Get(map, key) ==
  map.entries[CHOOSE i \in 1..Len(map.entries) : map.entries[i].key = key].value

RECURSIVE ValueMatches(_, _)
\* The mapping holds the fields of the node, each under its name, every text
\* the node's text.
ValueMatches(value, node) ==
  /\ value.kind = "map"
  /\ Len(value.entries) = Len(node.fields)
  /\ \A i \in 1..Len(node.fields) :
       /\ value.entries[i].key = node.fields[i].name
       /\ IF node.fields[i].kind = "leaf"
            THEN value.entries[i].value = TextValue(node.fields[i].text)
            ELSE ValueMatches(value.entries[i].value, node.fields[i].node)

\* C22: ParseResponse of a mutate response with results of different types
\* returns a mapping whose ['mutateResponse']['rval'] is a list with one entry
\* for each result, in the document's order, the 'result' of each keyed by
\* the name of the element's xsi:type, and every text, non-ASCII too, the text
\* of the document.
C22_ParseResponse ==
  direct.fn = "ParseResponse" =>
    /\ direct.result.outcome = "ok"
    /\ LET rval == Get(Get(direct.result.value, "mutateResponse"), "rval")
       IN /\ rval.kind = "list"
          /\ Len(rval.items) = Len(direct.results)
          /\ \A i \in 1..Len(direct.results) :
               LET result == Get(rval.items[i], "result")
               IN /\ result.kind = "map"
                  /\ Len(result.entries) = 1
                  /\ result.entries[1].key = direct.results[i].xsi_type
                  /\ ValueMatches(result.entries[1].value, direct.results[i])

\* C22 witness: a Budget and a Campaign were parsed, the Campaign's name in
\* katakana.
C22_Witness ==
  /\ direct.fn = "ParseResponse"
  /\ direct.results = <<BudgetResult(<<84>>), CampaignResult(<<12450, 12531>>)>>
  /\ Get(Get(Get(Get(direct.result.value, "mutateResponse"), "rval").items[2],
             "result"), "Campaign").entries[2].value.text = <<12450, 12531>>

\* What the element of a field of an error document gives the error: its
\* text, or None when it is empty or not there.
ExpectedField(text) == IF text \in {"", Missing} THEN None ELSE text

\* C23: _ExtractError raises for no response body: it returns an error with
\* the response's code, the response and the raw content; for a well-formed
\* reportDownloadError document the error is a bad-request error with the
\* document's type, trigger and field path, None for each that is empty; for
\* malformed XML and for what is not XML it is a plain report error.
C23_ExtractError ==
  direct.fn = "ExtractError" =>
    /\ direct.result.outcome = "returned"
    /\ direct.result.value.code = direct.response.code
    /\ direct.result.value.error = direct.response
    /\ direct.result.value.content = direct.response.body
    /\ \A t \in TypeTexts, g \in TriggerTexts, f \in FieldPathTexts :
         direct.response.body = ErrorDocument(t, g, f) =>
           /\ direct.result.value.class = "AdWordsReportBadRequestError"
           /\ direct.result.value.type = ExpectedField(t)
           /\ direct.result.value.trigger = ExpectedField(g)
           /\ direct.result.value.field_path = ExpectedField(f)
    /\ direct.response.body \in MalformedErrors \cup {<<TextToken("Page not found!")>>} =>
         direct.result.value.class = "AdWordsReportError"

\* C23 witness: the error of a document whose type is given and whose
\* trigger and field path are empty.
C23_Witness ==
  /\ direct.fn = "ExtractError"
  /\ direct.response.body =
       ErrorDocument("ReportDownloadError.INVALID_REPORT_DEFINITION_XML", "", "")
  /\ direct.result.value.type = "ReportDownloadError.INVALID_REPORT_DEFINITION_XML"
  /\ direct.result.value.trigger = None
  /\ direct.result.value.field_path = None

-----------------------------------------------------------------------------
(* Callers, sessions and the examples *)

\* Two calls are in progress whose requests were built from the same
\* current_content_length.
BuiltFromSame ==
  \E t, u \in Callers :
    /\ t # u
    /\ threads[t].pc # "idle" /\ threads[u].pc # "idle"
    /\ threads[t].from = threads[u].from

\* The byte range of a request, empty for a request without data.
Bytes(req) ==
  RangeStart(req.headers.ContentRange)..RangeEnd(req.headers.ContentRange)

\* C24: two UploadOperations calls on one helper that interleave can both
\* build their request from the same current_content_length and issue PUTs
\* with the same Content-range start; when the caller serialises the calls no
\* such state is reached, and no two PUTs cover the same byte.
C24_SerialisedCallsDoNotOverlap ==
  serialised =>
    /\ ~BuiltFromSame
    /\ \A i, j \in 1..Len(puts) : i < j => Bytes(puts[i]) \cap Bytes(puts[j]) = {}

\* C24 witness: without serialisation both callers' PUTs were issued with the
\* same Content-range start, their byte ranges overlapping.
C24_Witness ==
  /\ ~serialised
  /\ BuiltFromSame
  /\ threads[1].pc = "sent" /\ threads[2].pc = "sent"
  /\ Len(puts) = 2
  /\ RangeStart(puts[1].headers.ContentRange) = RangeStart(puts[2].headers.ContentRange)
  /\ Bytes(puts[1]) \cap Bytes(puts[2]) # {}

\* C25: whatever mix of accepted and failed UploadOperations calls is made
\* on a helper one after another, the byte ranges of the accepted PUTs are
\* contiguous and do not overlap: the first starts where the helper started,
\* at 0 for a helper that has uploaded nothing, and each later one starts at
\* the end of the one before it plus 1.
C25_ContiguousRanges ==
  live =>
    \A k \in 1..Len(uploaded) :
      /\ RangeStart(uploaded[k].headers.ContentRange) =
           IF k = 1 THEN base
           ELSE RangeEnd(uploaded[k - 1].headers.ContentRange) + 1
      /\ \A j \in 1..(k - 1) : Bytes(uploaded[j]) \cap Bytes(uploaded[k]) = {}

\* C25 witness: three chunks accepted from offset 0, the third after the
\* second, the second after the first.
C25_Witness ==
  /\ live /\ base = 0
  /\ Len(uploaded) = 3
  /\ RangeStart(uploaded[1].headers.ContentRange) = 0
  /\ RangeStart(uploaded[2].headers.ContentRange) > 0
  /\ RangeStart(uploaded[3].headers.ContentRange)
       > RangeStart(uploaded[2].headers.ContentRange)

\* C26: in every state of a helper that is not finished,
\* current_content_length is a multiple of the increment: every accepted
\* chunk that is not final, the very first included, is padded to one.
C26_ActiveLengthAligned ==
  (live /\ ~is_last) =>
    /\ current_content_length % BATCH_JOB_INCREMENT = 0
    /\ \A k \in 1..Len(uploaded) :
         Len(uploaded[k].data) % BATCH_JOB_INCREMENT = 0

\* C26 witness: a helper not finished whose first chunk, not aligned, was
\* padded.
C26_Witness ==
  /\ live /\ ~is_last /\ base = 0
  /\ Len(uploaded) = 1
  /\ Len(RStrip(uploaded[1].data)) % BATCH_JOB_INCREMENT # 0
  /\ current_content_length = BATCH_JOB_INCREMENT

RECURSIVE AllData(_)
\* The bodies of the requests, one after another.
AllData(reqs) ==
  IF reqs = <<>> THEN <<>> ELSE Head(reqs).data \o AllData(Tail(reqs))

\* How many times the fragment, one byte of the model, stands in the data.
Count(data, fragment) ==
  Cardinality({i \in 1..Len(data) : <<data[i]>> = fragment})

\* C27: when an upload is finished, the accepted bodies in order hold the
\* prefix once, at the start of the first chunk, and the suffix once, at the
\* end of the last chunk, also after a failed chunk was sent again and when
\* the first chunk is the final one; the chunks of a helper restored at a
\* length above 0 hold no prefix, the first chunk having been sent before.
C27_PrefixAndSuffixOnce ==
  (live /\ is_last /\ uploaded # <<>>) =>
    /\ Count(AllData(uploaded), UPLOAD_PREFIX) = IF base = 0 THEN 1 ELSE 0
    /\ base = 0 => StartsWith(uploaded[1].data, UPLOAD_PREFIX)
    /\ Count(AllData(uploaded), UPLOAD_SUFFIX) = 1
    /\ EndsWith(RStrip(uploaded[Len(uploaded)].data), UPLOAD_SUFFIX)

\* C27 witness: an upload finished by its second chunk.
C27_Witness ==
  /\ live /\ is_last /\ base = 0
  /\ Len(uploaded) = 2
  /\ uploaded[1].data # <<>>
  /\ StartsWith(uploaded[1].data, UPLOAD_PREFIX)
  /\ EndsWith(RStrip(uploaded[2].data), UPLOAD_SUFFIX)

\* C28: a helper restored by Load has the is_last and the
\* current_content_length Dump wrote; restored from the dump of a finished
\* helper it refuses every UploadOperations, and restored from the dump of a
\* helper at length n it builds its next request with Content-range start n,
\* without the prefix when n > 0.
C28_TerminalitySurvivesPersistence ==
  /\ [][call'.op = "Dump" =>
          /\ YamlLoad(file').is_last = is_last
          /\ YamlLoad(file').current_content_length = current_content_length]_vars
  /\ []((call.op = "Load" /\ call.outcome = "ok") =>
          /\ is_last = YamlLoad(file).is_last
          /\ current_content_length = YamlLoad(file).current_content_length)
  /\ [][(live /\ is_last /\ uploaded = <<>> /\ UploadStep) =>
          /\ call'.outcome = "InvalidOperationError"
          /\ opened' = <<>>
          /\ is_last'
          /\ uploaded' = <<>>]_vars
  /\ [][(call.op = "Load" /\ call.outcome = "ok" /\ ~is_last /\ UploadStep) =>
          /\ Len(opened') = 1
          /\ RangeStart(opened'[1].headers.ContentRange) =
               YamlLoad(file).current_content_length
          /\ StartsWith(opened'[1].data, UPLOAD_PREFIX)
               <=> YamlLoad(file).current_content_length = 0
          /\ Count(opened'[1].data, UPLOAD_PREFIX) =
               IF YamlLoad(file).current_content_length = 0 THEN 1 ELSE 0]_vars

\* C28 witness: a helper restored from the dump of a finished helper refused
\* an upload.
C28_Witness ==
  /\ live /\ is_last
  /\ uploaded = <<>>
  /\ YamlLoad(file).is_last
  /\ call.op = "UploadOperations" /\ call.outcome = "InvalidOperationError"

\* C29: an UploadOperations refused because the helper is finished hands no
\* request to the transport and leaves current_content_length, is_last and
\* upload_url as they were; every UploadOperations that is accepted hands the
\* request BuildUploadRequest returns to the transport, once.
C29_RejectedSendsNothing ==
  call.op = "UploadOperations" =>
    IF call.outcome = "InvalidOperationError"
      THEN /\ call.pre_is_last
           /\ opened = <<>>
           /\ current_content_length = call.pre_ccl
           /\ is_last = call.pre_is_last
           /\ upload_url = call.pre_url
      ELSE /\ ~call.pre_is_last
           /\ Len(opened) = 1
           /\ \E xml \in OperationsXML, last \in BOOLEAN :
                /\ opened[1] = BuildUploadRequest(call.pre_url, xml, last,
                                                  call.pre_ccl)
                /\ call.outcome = "ok" => is_last = last

\* C29 witness: a final chunk was accepted at a length above 0 and handed to
\* the transport.
C29_Witness ==
  /\ call.op = "UploadOperations" /\ call.outcome = "ok"
  /\ call.pre_ccl > 0
  /\ is_last
  /\ Len(opened) = 1
  /\ opened[1] = uploaded[Len(uploaded)]

\* How many of the responses received held 'results'.
PagesWithResults ==
  IF pc = "loop" THEN Len(requested) ELSE Len(requested) - 1

\* C30: the example asks for the pages at offsets 0, L, 2L, ..., L the
\* suggested page limit, moving the offset by L after each response that
\* holds 'results' and after no other; it stops at the first response
\* without 'results', so it ends when, and only when, the service gives such
\* a response, and the number it prints is that response's.
C30_PagingLoop ==
  /\ [](/\ \A k \in 1..Len(requested) :
             requested[k] = (k - 1) * SUGGESTED_PAGE_LIMIT
        /\ statement_offset = PagesWithResults * SUGGESTED_PAGE_LIMIT
        /\ (pc = "loop" /\ requested # <<>>) => page_response.has_results
        /\ pc # "loop" => (requested # <<>> /\ ~page_response.has_results)
        /\ pc = "done" <=> printed # NoTotal
        /\ pc = "done" => printed = page_response.totalResultSetSize)
  /\ [][pc # "loop" =>
          /\ requested' = requested
          /\ page_response' = page_response
          /\ statement_offset' = statement_offset]_vars
  /\ (pc = "break") ~> (pc = "done")

\* C30 witness: the example ended after three pages, the third without
\* results, and printed its total.
C30_Witness ==
  /\ pc = "done"
  /\ requested = <<0, SUGGESTED_PAGE_LIMIT, 2 * SUGGESTED_PAGE_LIMIT>>
  /\ printed = page_response.totalResultSetSize
  /\ printed > 0

====
